---- MODULE Spec2Model ----
(***************************************************************************)
(* A model of the build helper's watch mode: the in-memory Output store    *)
(* (src/unnamed/part_003, class Output) with its debounced change          *)
(* notification, and the watch coordinator (watch / writeFor) that maps    *)
(* changed virtual paths to packages and re-bundles them.                  *)
(*                                                                         *)
(* Paths are sequences of tokens: directory and file names, the separator  *)
(* tokens "/" and "\\", and a final extension token (".js", ".d.ts", ...). *)
(* Time is counted in milliseconds and advances in steps of TickMs.        *)
(***************************************************************************)
EXTENDS Integers, Sequences, FiniteSets, TLC

VARIABLES
  platform,      \* which "path" module the process runs with: "posix" | "win32"
  pkgs,          \* watch's pkgs: the Package objects of the session
  extraNorm,     \* watch's extraNorm: the normalized extra files
  files,         \* Output.files, in key insertion order: Seq of [name, content]
  changed,       \* Output.changed: the pending change batch (raw paths)
  watchers,      \* Output.watchers: the registered callbacks, by name
  watchTimeout,  \* Output.watchTimeout: the handle of the last timer (0 = null)
  timers,        \* the event loop's pending timers: set of [id, left]
  cycles,        \* the writeFor invocations in progress, oldest first
  last,          \* the writeFor invocation that ended in the step just taken
  handed,        \* what a flush in the step just taken handed its watchers
  sinceCall,     \* ms since the last call of write (capped at DebounceMs)
  sinceChange,   \* ms since the last content-changing write (capped)
  burst,         \* raw paths of the content-changing writes of the current burst
  cause,         \* raw paths content-written since the last notification
  writesLeft,    \* the compiler writes the model still allows
  buildMain,     \* build's main: [single, units], a string or an array of entry files
  sourceMap,     \* build's options.sourceMap
  emitSkipped,   \* whether the compiler run of this build skips emission
  compiled,      \* build's compiled: the Output of runTS, or Null
  buildPc,       \* where build() is: "idle" | "bundle" | "returned" | "rejected"
  buildAt,       \* the index in pkgs of the package build's loop is at
  written,       \* how many files the bundle() being awaited has written
  disk,          \* the files this build has written to disk, in order
  bundling,      \* the units whose bundle() has been invoked and not settled
  started,       \* the units whose bundle() build has invoked, in order
  buildResult,   \* what build() returned: "pending" | "true" | "false" | "rejected"
  input,         \* the argument of the function under study
  called,        \* whether it has been called
  output         \* its result, NotCalled before the call

watchVars == <<platform, pkgs, extraNorm, files, changed, watchers, watchTimeout, timers, cycles, last,
               handed, sinceCall, sinceChange, burst, cause, writesLeft>>

buildVars == <<buildMain, sourceMap, emitSkipped, compiled, buildPc, buildAt, written, disk, bundling,
               started, buildResult>>

funVars == <<input, called, output>>

vars == <<watchVars, buildVars, funVars>>

----------------------------------------------------------------------------
(* Bounds of the model and constants of the program *)

MaxWrites == 2
TickMs == 50
DebounceMs == 100

Undefined == "undefined"
Contents == {"1", "2"}
Platforms == {"posix", "win32"}

----------------------------------------------------------------------------
(* The "path" module, on token sequences *)

Max(S) == CHOOSE x \in S : \A y \in S : y <= x

\* F applied to the value of e, which is evaluated once
Once(F(_), e) == CHOOSE r \in {F(v) : v \in {e}} : TRUE

Includes(seq, x) == \E i \in DOMAIN seq : seq[i] = x

Range(seq) == {seq[i] : i \in DOMAIN seq}

sep(plat) == IF plat = "win32" THEN "\\" ELSE "/"

Seps(plat) == IF plat = "win32" THEN {"/", "\\"} ELSE {"/"}

\* path.join: the parts joined by the separator and normalized; win32's
\* path.normalize turns "/" into "\\"
join(plat, a, b) ==
  LET path == a \o <<sep(plat)>> \o b
  IN  [i \in 1..Len(path) |-> IF plat = "win32" /\ path[i] = "/" THEN "\\" ELSE path[i]]

dirname(plat, path) ==
  LET idx == {i \in 1..Len(path) : path[i] \in Seps(plat)}
  IN  IF idx = {} THEN <<".">>
      ELSE IF Max(idx) = 1 THEN <<path[1]>>
      ELSE SubSeq(path, 1, Max(idx) - 1)

\* path.replace(/\\/g, "/")
normalize(path) ==
  [i \in 1..Len(path) |-> IF path[i] = "\\" THEN "/" ELSE path[i]]

Ext(path) == path[Len(path)]

WithExt(path, ext) == [path EXCEPT ![Len(path)] = ext]

----------------------------------------------------------------------------
(* The packages of the session, as Package's constructor reads them *)

Units == <<"A", "B">>

\* the entry files handed to watch(), resolved by the caller
Main(plat, u) == <<"w", sep(plat), u, sep(plat), "src", sep(plat), "index", ".ts">>

\* the extra files handed to watch()
Extra(plat) == << <<"w", sep(plat), "x", sep(plat), "h", ".ts">> >>

\* fs.existsSync / fs.readdirSync of a package's test directory:
\* package B has test/t.ts and test/README.md, package A has no test directory
readdirSync(plat, dir) ==
  IF dir = join(plat, dirname(plat, dirname(plat, Main(plat, "B"))), <<"test">>)
  THEN << <<"t", ".ts">>, <<"README", ".md">> >>
  ELSE << >>

existsSync(plat, dir) == readdirSync(plat, dir) # << >>

\* readdirSync(dir).filter(f => /(?<!\.d)\.ts$/.test(f)).map(f => join(dir, f))
tsFiles(plat, dir) ==
  LET names == SelectSeq(readdirSync(plat, dir), LAMBDA f : Ext(f) = ".ts")
  IN  [i \in 1..Len(names) |-> join(plat, dir, names[i])]

Package(plat, main) ==
  LET src   == dirname(plat, main)
      root  == dirname(plat, src)
      tests == join(plat, root, <<"test">>)
  IN  [main  |-> main,
       root  |-> root,
       tests |-> IF existsSync(plat, tests) THEN tsFiles(plat, tests) ELSE << >>]

\* let pkgs = mains.map(Package.get)
mapPackages(plat) == [i \in 1..Len(Units) |-> Package(plat, Main(plat, Units[i]))]

\* let extraNorm = extra.map(normalize)
mapExtra(plat) == [i \in 1..Len(Extra(plat)) |-> normalize(Extra(plat)[i])]

----------------------------------------------------------------------------
(* class Output *)

\* files[name], "undefined" for a missing key
Get(fs, name) ==
  IF \E i \in 1..Len(fs) : fs[i].name = name
  THEN fs[CHOOSE i \in 1..Len(fs) : fs[i].name = name].content
  ELSE Undefined

\* files[name] = content: an existing key keeps its place, a new one goes last
Put(fs, name, content) ==
  IF \E i \in 1..Len(fs) : fs[i].name = name
  THEN [i \in 1..Len(fs) |-> IF fs[i].name = name
                             THEN [name |-> name, content |-> content] ELSE fs[i]]
  ELSE Append(fs, [name |-> name, content |-> content])

Keys(fs) == [i \in 1..Len(fs) |-> fs[i].name]

\* a write without its guard: every call counts as a change
SameContentNever(fs, norm, content) == FALSE

\* the guard of write: this.files[norm] == content
SameContent(fs, norm, content) == Get(fs, norm) = content

\* this.changed = [path]: the batch keeps the last path only
pushChangedOverwrites(batch, path) == <<path>>

\* if (!this.changed.includes(path)) this.changed.push(path)
pushChanged(batch, path) ==
  IF Includes(batch, path) THEN batch ELSE Append(batch, path)

\* clearTimeout(handle): a pending timer with that handle is dropped
clearTimeout(ts, handle) == {t \in ts : t.id # handle}

\* the handle setTimeout returns: one no pending timer has
NewHandle(ts) == CHOOSE h \in 1..(Cardinality(ts) + 1) : \A t \in ts : t.id # h

\* a write that leaves the pending timer in place
ResetTimersKeeps(o) == o.timers

\* if (this.watchTimeout) clearTimeout(this.watchTimeout)
ResetTimers(o) ==
  IF o.watchTimeout # 0 THEN clearTimeout(o.timers, o.watchTimeout) ELSE o.timers

\* setTimeout(flush, 0): the flush is due at once
ScheduleAtOnce(o) ==
  IF Len(o.watchers) > 0
  THEN [o EXCEPT !.watchTimeout = NewHandle(o.timers),
                 !.timers = @ \cup {[id |-> NewHandle(o.timers), left |-> 0]}]
  ELSE o

\* if (this.watchers.length) this.watchTimeout = setTimeout(flush, 100)
Schedule(o) ==
  IF Len(o.watchers) > 0
  THEN [o EXCEPT !.watchTimeout = NewHandle(o.timers),
                 !.timers = @ \cup {[id |-> NewHandle(o.timers), left |-> DebounceMs]}]
  ELSE o

\* Output.write on the store o = [files, changed, watchers, watchTimeout, timers]
write(o, path, content) ==
  LET norm == normalize(path)
  IN  IF SameContent(o.files, norm, content) THEN o
      ELSE Schedule([o EXCEPT !.files = Put(@, norm, content),
                              !.changed = pushChanged(@, path),
                              !.timers = ResetTimers(o)])

\* a lookup under the path as the caller spelled it
getAsSpelled(fs, path) == Get(fs, path)

\* Output.get
get(fs, path) == Get(fs, normalize(path))

\* the flush callback's forEach: the batch each watcher is handed
FlushArg(o) == o.changed

\* ... and the store's own batch at the time the watchers run
FlushSeen(o) == o.changed

\* a flush callback that does not empty the batch
FlushLeavesBatch(o) == o.changed

\* the store's batch once the flush callback has returned
FlushLeaves(o) == << >>

----------------------------------------------------------------------------
(* watch: writeFor *)

Event(ev, unit, path) == [ev |-> ev, unit |-> unit, path |-> path]

\* file.replace(/\.d\.ts$|\.js$|\.js.map$/, ".ts")
tsName(file) ==
  IF Ext(file) \in {".d.ts", ".js", ".js.map"} THEN WithExt(file, ".ts") ELSE file

\* extraNorm.includes(ts)
IsExtra(ex, file) == Includes(ex, tsName(file))

\* pkgs.find(p => p.root = root), as in src/src/build.ts: the first package matches
findAssigns(ps, root) == IF Len(ps) > 0 THEN 1 ELSE 0

\* pkgs.find(p => normalize(p.root) == root): the index of the package, 0 for none
find(ps, root) ==
  LET hits == {k \in 1..Len(ps) : normalize(ps[k].root) = root}
  IN  IF hits = {} THEN 0 ELSE CHOOSE k \in hits : \A j \in hits : k <= j

\* let root = dirname(dirname(file)); let pkg = pkgs.find(...)
owner(plat, ps, file) ==
  LET Dir(path) == dirname(plat, path)
      Find(root) == find(ps, root)
  IN  Once(Find, Once(Dir, Once(Dir, file)))

\* pkg.tests.includes(ts)
IsTest(ps, k, file) == Includes(ps[k].tests, tsName(file))

\* the loop over the batch, from its i-th path on; acc holds changedPkgs (as
\* unit names), changedFiles and, once the loop has thrown, the path it threw at
RECURSIVE classify(_, _, _, _, _, _)
classify(plat, ps, ex, batch, i, acc) ==
  LET file == batch[i]
      Step(k) ==
        IF IsExtra(ex, file)
        THEN classify(plat, ps, ex, batch, i + 1,
                      [acc EXCEPT !.changedFiles = Append(@, file)])
        ELSE IF k = 0
        THEN [acc EXCEPT !.threw = TRUE, !.at = file]
        ELSE IF IsTest(ps, k, file)
        THEN classify(plat, ps, ex, batch, i + 1,
                      [acc EXCEPT !.changedFiles = Append(@, file)])
        ELSE IF Includes(acc.changedPkgs, Units[k])
        THEN classify(plat, ps, ex, batch, i + 1, acc)
        ELSE classify(plat, ps, ex, batch, i + 1,
                      [acc EXCEPT !.changedPkgs = Append(@, Units[k])])
  IN  IF i > Len(batch) THEN acc ELSE Once(Step, owner(plat, ps, file))

\* a writeFor that writes no changed file to disk
directWritesNone(changedFiles) == << >>

\* for (let file of changedFiles) if (/\.(js|map)$/.test(file)) fs.writeFileSync(...)
directWrites(changedFiles) ==
  LET out == SelectSeq(changedFiles, LAMBDA f : Ext(f) \in {".js", ".js.map", ".map"})
  IN  [i \in 1..Len(out) |-> Event("disk", "", out[i])]

\* what the loop over changedPkgs does on reaching its i-th package: bundle() is
\* invoked and awaited, or the loop is over and "Bundling done." is logged
enterLoop(c, i) ==
  IF i <= Len(c.changedPkgs)
  THEN [c EXCEPT !.st = "bundling", !.i = i,
                 !.log = Append(@, Event("bundle", c.changedPkgs[i], << >>))]
  ELSE [c EXCEPT !.st = "done", !.i = i, !.log = Append(@, Event("done", "", << >>))]

\* writeFor(files) up to its first await (or its throw); why holds the paths
\* written since the last notification, and kind tells who called: watch()
\* itself ("initial"), a flush with no other invocation in progress ("flush"),
\* or a flush while another invocation awaits its bundler ("overlap")
writeFor(plat, ps, ex, kind, batch, why) ==
  LET Rest(r) ==
        LET c == [kind |-> kind, files |-> batch, cause |-> why,
                  changedPkgs |-> r.changedPkgs, changedFiles |-> r.changedFiles,
                  st |-> "classified", i |-> 0, log |-> << >>]
        IN  IF r.threw
            THEN [c EXCEPT !.st = "rejected", !.log = <<Event("throw", "", r.at)>>]
            ELSE enterLoop([c EXCEPT !.log = directWrites(r.changedFiles)
                                             \o <<Event("bundling", "", << >>)>>], 1)
  IN  Once(Rest, classify(plat, ps, ex, batch, 1,
                          [changedPkgs |-> << >>, changedFiles |-> << >>,
                           threw |-> FALSE, at |-> << >>]))

\* the files bundle() emits, in order: join(join(pkg.root, "dist"), name)
Artifacts == << <<"index", ".js">>, <<"index", ".cjs">>, <<"index", ".d.ts">> >>

\* bundle(pkg) got as far as writing its first n artifacts
emitted(plat, ps, u, n) ==
  LET k == CHOOSE j \in 1..Len(Units) : Units[j] = u
      distFile(j) == join(plat, join(plat, ps[k].root, <<"dist">>), Artifacts[j])
  IN  [j \in 1..n |-> Event("emit", u, distFile(j))]

\* await bundle(pkg, out, options) outside a try: the rejection ends writeFor
uncaught(c, u) == [c EXCEPT !.st = "rejected", !.log = Append(@, Event("throw", u, << >>))]

\* try { await bundle(pkg, out, options) } catch(e) { console.error(...) }:
\* a rejected bundle() is logged and the loop goes on with the next package
caught(c, u) == enterLoop([c EXCEPT !.log = Append(@, Event("error", u, << >>))], c.i + 1)

\* the awaited bundle() of cycle c settles after n artifacts (all of them: it
\* resolved, fewer: it rejected), and writeFor runs on to its next await
settle(plat, ps, c, n) ==
  LET u == c.changedPkgs[c.i]
      ok == n = Len(Artifacts)
      w == [c EXCEPT !.log = @ \o emitted(plat, ps, u, n)
                                 \o <<Event(IF ok THEN "resolved" ELSE "rejected", u, << >>)>>]
  IN  IF ok THEN enterLoop(w, c.i + 1) ELSE caught(w, u)

----------------------------------------------------------------------------
(* The compiler's side: the virtual paths it writes (with forward slashes) *)

VPath(dir, sub, name, ext) == <<"w", "/", dir, "/", sub, "/", name, ext>>

\* the first emit of the watch program, made inside watchTS before any
\* watcher is registered
InitialEmit ==
  << VPath("A", "src", "index", ".js"), VPath("B", "src", "index", ".js"),
     VPath("B", "src", "index", ".d.ts"), VPath("B", "test", "t", ".js"),
     <<"w", "/", "x", "/", "h", ".js">> >>

\* the paths a later emit may write: an output of each package, the output of a
\* file outside every package, and a path spelled with backslashes
WritePaths ==
  { VPath("A", "src", "index", ".js"), VPath("B", "src", "index", ".js"),
    VPath("z", "lib", "o", ".js"),
    <<"w", "\\", "B", "\\", "src", "\\", "index", ".js">> }

Out == [files |-> files, changed |-> changed, watchers |-> watchers,
        watchTimeout |-> watchTimeout, timers |-> timers]

RECURSIVE emitAll(_, _, _)
emitAll(o, paths, i) ==
  IF i > Len(paths) THEN o ELSE emitAll(write(o, paths[i], "1"), paths, i + 1)

\* new Output, then the watch program's first emit
watchTS ==
  emitAll([files |-> << >>, changed |-> << >>, watchers |-> << >>,
           watchTimeout |-> 0, timers |-> {}], InitialEmit, 1)

InProgress(c) == c.st = "bundling"

NoCycle == [kind |-> "none", files |-> << >>, cause |-> {},
            changedPkgs |-> << >>, changedFiles |-> << >>,
            st |-> "none", i |-> 0, log |-> << >>]

NoFlush == [flushed |-> FALSE, files |-> << >>, seen |-> << >>]

\* null, where an object is expected
Null == [null |-> TRUE]

NotCalled == "not called"

\* build() has not been called in this process
BuildIdle ==
  /\ buildMain = [single |-> FALSE, units |-> << >>]
  /\ sourceMap = FALSE
  /\ emitSkipped = FALSE
  /\ compiled = Null
  /\ buildPc = "idle"
  /\ buildAt = 0
  /\ written = 0
  /\ disk = << >>
  /\ bundling = {}
  /\ started = << >>
  /\ buildResult = "pending"

\* no function is under study
FunIdle == input = NotCalled /\ called = FALSE /\ output = NotCalled

\* the state watch() returns in: out = watchTS(...), out.watchers.push(writeFor),
\* writeFor(Object.keys(out.files)) run up to its first await
InitOn(plat) ==
  /\ platform = plat
  /\ pkgs = mapPackages(plat)
  /\ extraNorm = mapExtra(plat)
  /\ files = watchTS.files
  /\ changed = watchTS.changed
  /\ watchers = Append(watchTS.watchers, "writeFor")
  /\ watchTimeout = watchTS.watchTimeout
  /\ timers = watchTS.timers
  /\ cycles = <<writeFor(plat, mapPackages(plat), mapExtra(plat), "initial",
                         Keys(watchTS.files), {})>>
  /\ last = NoCycle
  /\ handed = NoFlush
  /\ sinceCall = 0
  /\ sinceChange = 0
  /\ burst = {}
  /\ cause = {}
  /\ writesLeft = MaxWrites
  /\ BuildIdle
  /\ FunIdle

Init == InitOn("posix")

Cap(ms) == IF ms > DebounceMs THEN DebounceMs ELSE ms

\* the compiler calls out.write(path, content)
Write(path, content) ==
  \E o \in {write(Out, path, content)},
     chg \in {~SameContent(files, normalize(path), content)} :
      /\ writesLeft > 0
      /\ writesLeft' = writesLeft - 1
      /\ files' = o.files
      /\ changed' = o.changed
      /\ watchTimeout' = o.watchTimeout
      /\ timers' = o.timers
      /\ sinceCall' = 0
      /\ sinceChange' = IF chg THEN 0 ELSE sinceChange
      /\ burst' = IF ~chg THEN burst
                  ELSE IF sinceChange < DebounceMs THEN burst \cup {path} ELSE {path}
      /\ cause' = IF chg THEN cause \cup {path} ELSE cause
      /\ last' = NoCycle
      /\ handed' = NoFlush
      /\ UNCHANGED <<platform, pkgs, extraNorm, watchers, cycles, buildVars, funVars>>

\* TickMs milliseconds pass; a due timer may still be waiting for the loop
Tick ==
  /\ timers' = {[id |-> t.id, left |-> IF t.left > TickMs THEN t.left - TickMs ELSE 0]
                : t \in timers}
  /\ sinceCall' = Cap(sinceCall + TickMs)
  /\ sinceChange' = Cap(sinceChange + TickMs)
  /\ last' = NoCycle
  /\ handed' = NoFlush
  /\ UNCHANGED <<platform, pkgs, extraNorm, files, changed, watchers, watchTimeout, cycles, burst,
                 cause, writesLeft, buildVars, funVars>>

\* a due timer runs the flush callback:
\*   this.watchers.forEach(w => w(this.changed)); this.changed = []
\* writeFor runs up to its first await; a call that awaits nothing is over at once
Flush(t) ==
  \E c \in {writeFor(platform, pkgs, extraNorm,
                     IF cycles = << >> THEN "flush" ELSE "overlap",
                     FlushArg(Out), cause)} :
      /\ t.left = 0
      /\ timers' = timers \ {t}
      /\ handed' = [flushed |-> TRUE, files |-> FlushArg(Out), seen |-> FlushSeen(Out)]
      /\ IF InProgress(c)
         THEN cycles' = Append(cycles, c) /\ last' = NoCycle
         ELSE cycles' = cycles /\ last' = c
      /\ changed' = FlushLeaves(Out)
      /\ cause' = {}
      /\ UNCHANGED <<platform, pkgs, extraNorm, files, watchers, watchTimeout, sinceCall, sinceChange,
                     burst, writesLeft, buildVars, funVars>>

\* the bundle() that the ci-th running writeFor awaits settles, having written n
\* artifacts; writeFor runs on to its next await, or to its end
Settle(ci, n) ==
  \E c \in {settle(platform, pkgs, cycles[ci], n)} :
      /\ IF InProgress(c)
         THEN cycles' = [cycles EXCEPT ![ci] = c] /\ last' = NoCycle
         ELSE /\ cycles' = [j \in 1..(Len(cycles) - 1) |->
                            IF j < ci THEN cycles[j] ELSE cycles[j + 1]]
              /\ last' = c
      /\ handed' = NoFlush
      /\ UNCHANGED <<platform, pkgs, extraNorm, files, changed, watchers, watchTimeout, timers,
                     sinceCall, sinceChange, burst, cause, writesLeft, buildVars, funVars>>

Next ==
  \/ \E path \in WritePaths, content \in Contents : Write(path, content)
  \/ Tick
  \/ \E t \in timers : Flush(t)
  \/ \E ci \in 1..Len(cycles), n \in 0..Len(Artifacts) : Settle(ci, n)

Spec == Init /\ [][Next]_vars

\* the same watch session in a process whose "path" module is path.win32
WinSpec == InitOn("win32") /\ [][Next]_vars

\* time passes, and the event loop runs a timer that is due
FairSpec == Spec /\ WF_vars(Tick) /\ WF_vars(\E t \in timers : Flush(t))

----------------------------------------------------------------------------
(* build: the one-shot build *)

\* watch() has not been called in this process
WatchIdle ==
  /\ pkgs = << >>
  /\ extraNorm = << >>
  /\ files = << >>
  /\ changed = << >>
  /\ watchers = << >>
  /\ watchTimeout = 0
  /\ timers = {}
  /\ cycles = << >>
  /\ last = NoCycle
  /\ handed = NoFlush
  /\ sinceCall = 0
  /\ sinceChange = 0
  /\ burst = {}
  /\ cause = {}
  /\ writesLeft = 0

\* the values of main a caller passes: one entry file as a string, or an array
BuildMains ==
  {[single |-> TRUE, units |-> <<u>>] : u \in Range(Units)}
    \cup {[single |-> FALSE, units |-> us] : us \in {<<"A">>, <<"B">>, <<"A", "B">>, <<"B", "A">>}}

\* typeof main == "string" ? [Package.get(main)] : main.map(Package.get)
packagesOf(plat, m) ==
  IF m.single THEN <<Package(plat, Main(plat, m.units[1]))>>
  ELSE [i \in 1..Len(m.units) |-> Package(plat, Main(plat, m.units[i]))]

\* the unit a package of the session stands for
unitOf(plat, pkg) == CHOOSE u \in Range(Units) : Main(plat, u) = pkg.main

\* the files the compiler emits for a package, under the names TypeScript gives
\* them (forward slashes): the entry file's and the tests' outputs
emitFor(pkg, sm) ==
  LET srcs == <<pkg.main>> \o pkg.tests
      exts == IF sm THEN <<".js", ".js.map", ".d.ts">> ELSE <<".js", ".d.ts">>
  IN  [k \in 1..(Len(srcs) * Len(exts)) |->
         normalize(WithExt(srcs[((k - 1) \div Len(exts)) + 1], exts[((k - 1) % Len(exts)) + 1]))]

RECURSIVE emitForAll(_, _, _)
emitForAll(ps, sm, i) ==
  IF i > Len(ps) THEN << >> ELSE emitFor(ps[i], sm) \o emitForAll(ps, sm, i + 1)

\* a variant of runTS that hands back the store whatever the emit reported
runTSIgnoresSkip(skipped, ps, sm) ==
  emitAll([files |-> << >>, changed |-> << >>, watchers |-> << >>,
           watchTimeout |-> 0, timers |-> {}],
          IF skipped THEN << >> ELSE emitForAll(ps, sm, 1), 1)

\* let out = new Output, result = program.emit(undefined, out.write)
\* return result.emitSkipped ? null : out
runTS(skipped, ps, sm) ==
  IF skipped THEN Null
  ELSE emitAll([files |-> << >>, changed |-> << >>, watchers |-> << >>,
                watchTimeout |-> 0, timers |-> {}], emitForAll(ps, sm, 1), 1)

\* the three emit() calls of bundle(pkg), in order: conf.file, conf.sourcemap
\* and the makePure argument (the ES module, the CommonJS and the declaration
\* bundle; the last two are called without makePure, the last without sourcemap)
emitCalls(plat, pkg, sm) ==
  LET dist == join(plat, pkg.root, <<"dist">>)
  IN  << [file |-> join(plat, dist, <<"index", ".js">>), sourcemap |-> sm, makePure |-> ~sm],
         [file |-> join(plat, dist, <<"index", ".cjs">>), sourcemap |-> sm, makePure |-> FALSE],
         [file |-> join(plat, dist, <<"index", ".d.ts">>), sourcemap |-> FALSE,
          makePure |-> FALSE] >>

\* an emit that runs every chunk through addPureComments
emitAnnotatesAll(plat, conf) ==
  LET dir == dirname(plat, conf.file)
      fileName == SubSeq(conf.file, Len(conf.file) - 1, Len(conf.file))
      chunk == [path |-> join(plat, dir, fileName), pure |-> TRUE]
  IN  IF conf.sourcemap
      THEN << [path |-> join(plat, dir, WithExt(fileName, Ext(fileName) \o ".map")),
               pure |-> FALSE], chunk >>
      ELSE <<chunk>>

\* emit(bundle, conf, makePure): the files it writes, in order, and whether the
\* content of each went through addPureComments; a chunk's map, when it has
\* one, is written before the chunk
emit(plat, conf) ==
  LET dir == dirname(plat, conf.file)
      fileName == SubSeq(conf.file, Len(conf.file) - 1, Len(conf.file))
      chunk == [path |-> join(plat, dir, fileName), pure |-> conf.makePure]
  IN  IF conf.sourcemap
      THEN << [path |-> join(plat, dir, WithExt(fileName, Ext(fileName) \o ".map")),
               pure |-> FALSE], chunk >>
      ELSE <<chunk>>

\* the files one bundle(pkg) writes, in order
bundleFiles(plat, pkg, sm) ==
  LET calls == emitCalls(plat, pkg, sm)
  IN  emit(plat, calls[1]) \o emit(plat, calls[2]) \o emit(plat, calls[3])

\* for (let file of pkg.tests.map(f => f.replace(/\.ts$/, ".js")))
\*   fs.writeFileSync(file, compiled.get(file))
testCopies(plat, pkg) ==
  [k \in 1..Len(pkg.tests) |->
     Event("copy", unitOf(plat, pkg),
           IF Ext(pkg.tests[k]) = ".ts" THEN WithExt(pkg.tests[k], ".js") ELSE pkg.tests[k])]

buildPkgs == packagesOf(platform, buildMain)

\* bundle(pkg, compiled, options) without await: the loop goes on while the
\* bundle is still in progress
notAwaited(running, u) == running

\* await bundle(pkg, compiled, options): build goes on when the bundle of u has
\* settled; running holds the units whose bundle() is in progress
awaited(running, u) == running \ {u}

\* build's loop reaches its i-th package with the bundle() calls in rest still
\* unsettled: bundle() is invoked and awaited, or the loop is over and build
\* returns true
EnterBuildLoop(i, rest) ==
  IF i <= Len(buildPkgs)
  THEN /\ buildPc' = "bundle"
       /\ buildAt' = i
       /\ written' = 0
       /\ started' = Append(started, unitOf(platform, buildPkgs[i]))
       /\ bundling' = rest \cup {unitOf(platform, buildPkgs[i])}
       /\ buildResult' = buildResult
  ELSE /\ buildPc' = "returned"
       /\ buildAt' = i
       /\ written' = 0
       /\ started' = started
       /\ bundling' = rest
       /\ buildResult' = "true"

\* build(main, options) is called and runs to its first await, or to its return
Build ==
  /\ buildPc = "idle"
  /\ \E out \in {runTS(emitSkipped, buildPkgs, sourceMap)} :
       /\ compiled' = out
       /\ IF out = Null
          THEN /\ buildPc' = "returned"
               /\ buildResult' = "false"
               /\ UNCHANGED <<buildAt, written, started, bundling>>
          ELSE EnterBuildLoop(1, bundling)
  /\ UNCHANGED <<watchVars, funVars, buildMain, sourceMap, emitSkipped, disk>>

\* the bundle() being awaited writes its next file
BundleWrites ==
  /\ buildPc = "bundle"
  /\ written < Len(bundleFiles(platform, buildPkgs[buildAt], sourceMap))
  /\ written' = written + 1
  /\ \E file \in {bundleFiles(platform, buildPkgs[buildAt], sourceMap)[written + 1]} :
       disk' = Append(disk, [ev |-> "emit", unit |-> unitOf(platform, buildPkgs[buildAt]),
                             path |-> file.path, pure |-> file.pure])
  /\ UNCHANGED <<watchVars, funVars, buildMain, sourceMap, emitSkipped, compiled, buildPc, buildAt,
                 bundling, started, buildResult>>

\* the bundle() being awaited rejects (rollup, generate or a write failed):
\* nothing catches it, and build() rejects
BundleRejects ==
  /\ buildPc = "bundle"
  /\ written < Len(bundleFiles(platform, buildPkgs[buildAt], sourceMap))
  /\ buildPc' = "rejected"
  /\ buildResult' = "rejected"
  /\ bundling' = awaited(bundling, unitOf(platform, buildPkgs[buildAt]))
  /\ UNCHANGED <<watchVars, funVars, buildMain, sourceMap, emitSkipped, compiled, buildAt, written,
                 disk, started>>

\* the bundle() being awaited resolves: the package's test outputs are copied
\* and the loop goes on
BundleResolves ==
  /\ buildPc = "bundle"
  /\ written = Len(bundleFiles(platform, buildPkgs[buildAt], sourceMap))
  /\ disk' = disk \o testCopies(platform, buildPkgs[buildAt])
  /\ EnterBuildLoop(buildAt + 1, awaited(bundling, unitOf(platform, buildPkgs[buildAt])))
  /\ UNCHANGED <<watchVars, funVars, buildMain, sourceMap, emitSkipped, compiled>>

BuildInit ==
  /\ platform \in Platforms
  /\ WatchIdle
  /\ FunIdle
  /\ buildMain \in BuildMains
  /\ sourceMap \in BOOLEAN
  /\ emitSkipped \in BOOLEAN
  /\ compiled = Null
  /\ buildPc = "idle"
  /\ buildAt = 0
  /\ written = 0
  /\ disk = << >>
  /\ bundling = {}
  /\ started = << >>
  /\ buildResult = "pending"

BuildNext == Build \/ BundleWrites \/ BundleRejects \/ BundleResolves

BuildSpec == BuildInit /\ [][BuildNext]_vars

----------------------------------------------------------------------------
(* addPureComments: the syntax trees it is given, and their text.  A tree is  *)
(* what parse() returns for the text printed from it: a node starts where its *)
(* text starts.                                                                *)

pure == "/*@__PURE__*/"

\* the length of the text before a call that the enum check looks at
Window == 100

Node(type, name, params, computed, kids, body) ==
  [type |-> type, name |-> name, params |-> params, computed |-> computed,
   kids |-> kids, body |-> body]

Id(name) == Node("Identifier", name, << >>, FALSE, << >>, << >>)

\* callee(args)
Call(callee, args) == Node("CallExpression", "", << >>, FALSE, <<callee>> \o args, << >>)

\* new callee(args)
New(callee, args) == Node("NewExpression", "", << >>, FALSE, <<callee>> \o args, << >>)

\* object.name, or object[property]
Dot(object, name) == Node("MemberExpression", name, << >>, FALSE, <<object>>, << >>)

At(object, property) == Node("MemberExpression", "", << >>, TRUE, <<object, property>>, << >>)

\* function(params){body}
Fn(params, body) == Node("FunctionExpression", "", params, FALSE, << >>, body)

\* function name(){body}
FnDecl(name, body) == Node("FunctionDeclaration", name, << >>, FALSE, << >>, body)

\* class name extends kids[1] {m(){body}}, kids empty without extends
ClassDecl(name, kids, body) == Node("ClassDeclaration", name, << >>, FALSE, kids, body)

\* expression;
Stmt(expr) == Node("ExpressionStatement", "", << >>, FALSE, <<expr>>, << >>)

\* var name;  or  var name = kids[1];
Var(name, kids) == Node("VariableDeclaration", name, << >>, FALSE, kids, << >>)

IsFunction(node) == node.type \in {"FunctionExpression", "FunctionDeclaration"}

IsCall(node) == node.type \in {"CallExpression", "NewExpression"}

RECURSIVE commas(_, _)
commas(names, i) ==
  IF i > Len(names) THEN ""
  ELSE names[i] \o (IF i < Len(names) THEN "," ELSE "") \o commas(names, i + 1)

RECURSIVE text(_), textAll(_, _, _)
\* the texts of the nodes from the i-th on, with a separator between two of them
textAll(nodes, between, i) ==
  IF i > Len(nodes) THEN ""
  ELSE text(nodes[i]) \o (IF i < Len(nodes) THEN between ELSE "")
         \o textAll(nodes, between, i + 1)

\* a function expression in callee position is written in parentheses
calleeText(callee) ==
  IF callee.type = "FunctionExpression" THEN "(" \o text(callee) \o ")" ELSE text(callee)

\* the text up to the first statement of a function's or class's body
header(node) ==
  CASE node.type = "FunctionExpression" -> "function(" \o commas(node.params, 1) \o "){"
    [] node.type = "FunctionDeclaration" -> "function " \o node.name \o "(){"
    [] node.type = "ClassDeclaration" ->
         "class " \o node.name
           \o (IF node.kids = << >> THEN "" ELSE " extends " \o text(node.kids[1]))
           \o "{m(){"

text(node) ==
  CASE node.type = "Identifier" -> node.name
    [] node.type = "CallExpression" ->
         calleeText(node.kids[1]) \o "(" \o textAll(Tail(node.kids), ",", 1) \o ")"
    [] node.type = "NewExpression" ->
         "new " \o calleeText(node.kids[1]) \o "(" \o textAll(Tail(node.kids), ",", 1) \o ")"
    [] node.type = "MemberExpression" ->
         IF node.computed THEN text(node.kids[1]) \o "[" \o text(node.kids[2]) \o "]"
         ELSE text(node.kids[1]) \o "." \o node.name
    [] IsFunction(node) -> header(node) \o textAll(node.body, " ", 1) \o "}"
    [] node.type = "ClassDeclaration" -> header(node) \o textAll(node.body, " ", 1) \o "}}"
    [] node.type = "ExpressionStatement" -> text(node.kids[1]) \o ";"
    [] node.type = "VariableDeclaration" ->
         IF node.kids = << >> THEN "var " \o node.name \o ";"
         ELSE "var " \o node.name \o " = " \o text(node.kids[1]) \o ";"

\* where the i-th of the nodes starts, when the first starts at pos and gap
\* characters separate two of them
startOf(nodes, pos, gap, i) == pos + Len(textAll(SubSeq(nodes, 1, i - 1), "", 1)) + gap * (i - 1)

\* node.callee.start, for a call or new expression that starts at pos
calleeStart(node, pos) ==
  pos + (IF node.type = "NewExpression" THEN 4 ELSE 0)
      + (IF node.kids[1].type = "FunctionExpression" THEN 1 ELSE 0)

\* node.arguments[i].start
argStart(node, pos, i) ==
  startOf(Tail(node.kids),
          pos + (IF node.type = "NewExpression" THEN 4 ELSE 0) + Len(calleeText(node.kids[1])) + 1,
          1, i)

\* the start of the i-th child expression of a node that is no call
kidStart(node, pos, i) ==
  CASE node.type = "MemberExpression" ->
         IF i = 1 THEN pos ELSE pos + Len(text(node.kids[1])) + 1
    [] node.type = "ExpressionStatement" -> pos
    [] node.type = "VariableDeclaration" -> pos + Len("var " \o node.name \o " = ")
    [] node.type = "ClassDeclaration" -> pos + Len("class " \o node.name \o " extends ")

\* the start of the i-th statement of a function's or class's body
bodyStart(node, pos, i) == startOf(node.body, pos + Len(header(node)), 1, i)

----------------------------------------------------------------------------
(* addPureComments *)

\* String.prototype.slice(from, to) with offsets counted from 0: a negative
\* offset counts from the end, and an empty range gives ""
jsOffset(len, k) ==
  IF k < 0 THEN (IF len + k < 0 THEN 0 ELSE len + k) ELSE IF k > len THEN len ELSE k

slice(str, from, to) ==
  IF jsOffset(Len(str), from) >= jsOffset(Len(str), to) THEN ""
  ELSE SubSeq(str, jsOffset(Len(str), from) + 1, jsOffset(Len(str), to))

char(str, i) == SubSeq(str, i, i)

\* \w
WordChars ==
  {"a", "b", "c", "d", "e", "f", "g", "h", "i", "j", "k", "l", "m", "n", "o", "p", "q", "r",
   "s", "t", "u", "v", "w", "x", "y", "z", "A", "B", "C", "D", "E", "F", "G", "H", "I", "J",
   "K", "L", "M", "N", "O", "P", "Q", "R", "S", "T", "U", "V", "W", "X", "Y", "Z", "0", "1",
   "2", "3", "4", "5", "6", "7", "8", "9", "_"}

\* /\bvar (\w+);\s*$/.exec(str): whether it matches, m.index and m[1]
execVar(str) ==
  LET Spaces == {" ", "\n", "\t", "\r"}
      semi == Max({0} \cup {i \in 1..Len(str) : char(str, i) \notin Spaces})
      word == CHOOSE b \in 1..(semi + 1) :
                /\ \A j \in b..(semi - 1) : char(str, j) \in WordChars
                /\ \A a \in 1..(b - 1) : \E j \in a..(semi - 1) : char(str, j) \notin WordChars
      found == /\ semi > 0
               /\ char(str, semi) = ";"
               /\ word < semi
               /\ word > 4
               /\ SubSeq(str, word - 4, word - 1) = "var "
               /\ (word = 5 \/ char(str, word - 5) \notin WordChars)
  IN  IF found THEN [found |-> TRUE, index |-> word - 5, name |-> SubSeq(str, word, semi - 1)]
      ELSE [found |-> FALSE, index |-> 0, name |-> ""]

\* a patch: {from, to?, insert}
Patch(from, hasTo, to, insert) == [from |-> from, hasTo |-> hasTo, to |-> to, insert |-> insert]

\* function addPure(pos)
addPure(patches, pos) ==
  IF patches # << >> /\ patches[Len(patches)].from = pos /\ patches[Len(patches)].insert = pure
  THEN patches
  ELSE Append(patches, Patch(pos, FALSE, 0, pure))

RECURSIVE visit(_, _, _, _), visitAll(_, _, _, _, _, _)

\* a variant of the Function visitor that walks the function's body
FunctionWalksBody(code, node, pos, patches) ==
  visitAll(code, node, pos, patches, "body", 1)

\* Function() {}: a function is not walked
Function(code, node, pos, patches) == patches

\* Class() {}: a class is not walked
Class(code, node, pos, patches) == patches

\* function walkCall(node, c): the arguments, then the callee
walkCall(code, node, pos, patches) ==
  visit(code, node.kids[1], calleeStart(node, pos),
        visitAll(code, node, pos, patches, "arguments", 1))

\* the patches of the enum rewrite, when the text before the call asks for it
enumPatches(code, node, pos) ==
  LET callee == node.kids[1]
      m == execVar(slice(code, pos - Window, pos))
  IN  IF callee.type = "FunctionExpression" /\ Len(callee.params) = 1
         /\ m.found /\ m.name = callee.params[1]
      THEN << Patch(m.index + 4 + Len(m.name) + (pos - Window), TRUE, pos, " = "),
              Patch(calleeStart(node, pos) + Len(text(callee)) - 1, FALSE, 0,
                    "return " \o m.name) >>
      ELSE << >>

\* the CallExpression visitor
CallExpression(code, node, pos, patches) ==
  addPure(walkCall(code, node, pos, patches), pos) \o enumPatches(code, node, pos)

\* the NewExpression visitor
NewExpression(code, node, pos, patches) ==
  addPure(walkCall(code, node, pos, patches), pos)

\* the children of node from the i-th on, walked in order: the arguments of a
\* call, the statements of a body, or the child expressions of another node
visitAll(code, node, pos, patches, which, i) ==
  LET nodes == CASE which = "arguments" -> Tail(node.kids)
                 [] which = "body" -> node.body
                 [] which = "kids" -> node.kids
      start == CASE which = "arguments" -> argStart(node, pos, i)
                 [] which = "body" -> bodyStart(node, pos, i)
                 [] which = "kids" -> kidStart(node, pos, i)
  IN  IF i > Len(nodes) THEN patches
      ELSE visitAll(code, node, pos, visit(code, nodes[i], start, patches), which, i + 1)

\* recursive(...)'s callback c: the visitor given for the node's type, or
\* acorn-walk's base visitor, which walks the node's child expressions (of a
\* member expression, the property only when it is computed)
visit(code, node, pos, patches) ==
  CASE node.type = "CallExpression" -> CallExpression(code, node, pos, patches)
    [] node.type = "NewExpression" -> NewExpression(code, node, pos, patches)
    [] IsFunction(node) -> Function(code, node, pos, patches)
    [] node.type = "ClassDeclaration" -> Class(code, node, pos, patches)
    [] node.type = "Identifier" -> patches
    [] OTHER -> visitAll(code, node, pos, patches, "kids", 1)

\* patches left in the order the walk pushed them
sortPatchesNot(patches) == patches

\* patches.sort((a, b) => a.from - b.from): the sort is stable
RECURSIVE sortPatches(_)
sortPatches(patches) ==
  IF patches = << >> THEN << >>
  ELSE LET p == patches[Len(patches)]
           front == sortPatches(SubSeq(patches, 1, Len(patches) - 1))
           k == Cardinality({j \in 1..Len(front) : front[j].from <= p.from})
       IN  SubSeq(front, 1, k) \o <<p>> \o SubSeq(front, k + 1, Len(front))

\* the loop that builds the result from the i-th patch on
RECURSIVE applyPatches(_, _, _, _, _)
applyPatches(code, patches, i, pos, result) ==
  IF i > Len(patches) THEN result \o slice(code, pos, Len(code))
  ELSE applyPatches(code, patches, i + 1,
                    IF patches[i].hasTo THEN patches[i].to ELSE patches[i].from,
                    result \o slice(code, pos, patches[i].from) \o patches[i].insert)

\* the text of a program: its statements, one space apart, between two runs of
\* white space
codeOf(prog) == prog.lead \o textAll(prog.stmts, " ", 1) \o prog.trail

\* where the i-th statement of the program starts
stmtStart(prog, i) == startOf(prog.stmts, Len(prog.lead), 1, i)

\* recursive(parse(code), null, {...}) on the program's statements
RECURSIVE walkProgram(_, _, _)
walkProgram(prog, patches, i) ==
  IF i > Len(prog.stmts) THEN patches
  ELSE walkProgram(prog, visit(codeOf(prog), prog.stmts[i], stmtStart(prog, i), patches), i + 1)

\* addPureComments(code): the sorted patches and the result
addPureComments(prog) ==
  LET Sorted(ps) == [patches |-> ps, result |-> applyPatches(codeOf(prog), ps, 1, 0, "")]
  IN  Once(Sorted, sortPatches(walkProgram(prog, << >>, 1)))

\* the programs addPureComments is given: up to MaxStmts statements
MaxStmts == 2
MaxLines == 2
MaxDiags == 2

RECURSIVE blanks(_)
blanks(n) == IF n = 0 THEN "" ELSE " " \o blanks(n - 1)

CallH == Call(Id("h"), << >>)

CallG == Call(Id("g"), << >>)

\* (function(param){param.A;})(name), the shape TypeScript compiles an enum to
Iife(name, param) == Call(Fn(<<param>>, <<Stmt(Dot(Id(param), "A"))>>), <<Id(name)>>)

Statements ==
  { Stmt(CallH),                                           \* h();
    Stmt(Call(Id("f"), <<CallG>>)),                        \* f(g());
    Stmt(Call(Call(Id("f"), << >>), << >>)),               \* f()();
    Stmt(Call(At(Call(Id("f"), << >>), CallG), << >>)),    \* f()[g()]();
    Stmt(New(Id("F"), <<CallG>>)),                         \* new F(g());
    Stmt(Call(Dot(Id("a"), "b"), << >>)),                  \* a.b();
    Var("x", <<CallH>>),                                   \* var x = h();
    Var("E", << >>),                                       \* var E;
    Stmt(Iife("E", "E")),                                  \* (function(E){E.A;})(E);
    Stmt(Iife("E", "E2")),                                 \* (function(E2){E2.A;})(E);
    Stmt(Call(Fn(<<"E">>, <<Stmt(CallG)>>), <<Id("E")>>)), \* (function(E){g();})(E);
    Stmt(Call(Iife("E", "E"), << >>)),                     \* (function(E){E.A;})(E)();
    FnDecl("f", <<Stmt(CallG)>>),                          \* function f(){g();}
    ClassDecl("C", << >>, <<Stmt(CallG)>>),                \* class C{m(){g();}}
    ClassDecl("C", <<CallH>>, <<Stmt(CallG)>>) }           \* class C extends h(){m(){g();}}

Programs ==
  [lead : {blanks(n) : n \in {0, 40, Window}},
   stmts : UNION {[1..n -> Statements] : n \in 1..MaxStmts},
   trail : {blanks(n) : n \in {0, Window}}]

PureInit ==
  /\ platform = "posix"
  /\ WatchIdle
  /\ BuildIdle
  /\ input \in Programs
  /\ called = FALSE
  /\ output = NotCalled

\* emit() hands the generated chunk to addPureComments
Annotate ==
  /\ ~called
  /\ called' = TRUE
  /\ output' = addPureComments(input)
  /\ UNCHANGED <<watchVars, buildVars, input>>

PureNext == Annotate

PureSpec == PureInit /\ [][PureNext]_vars

----------------------------------------------------------------------------
(* external: the predicate handed to rollup *)

startsWith(str, prefix) == Len(str) >= Len(prefix) /\ SubSeq(str, 1, Len(prefix)) = prefix

\* /^(\.?\/|\w:)/.test(id)
looksLikePath(id) ==
  \/ startsWith(id, "/")
  \/ startsWith(id, "./")
  \/ (Len(id) >= 2 /\ char(id, 1) \in WordChars /\ char(id, 2) = ":")

\* a variant of external that has lost the negation of the path test
externalPathsOnly(id) == id # "tslib" /\ looksLikePath(id)

\* function external(id) { return id != "tslib" && !/^(\.?\/|\w:)/.test(id) }
external(id) == id # "tslib" /\ ~looksLikePath(id)

\* input: one of the module specifiers and file names rollup may ask about
ExternalInit ==
  /\ platform = "posix"
  /\ WatchIdle
  /\ BuildIdle
  /\ input \in {prefix \o name :
                  prefix \in {"", "./", "../", "/", ".", "..", "c:/", "C:\\", "1:", "_:", "@cm/",
                              "node:"},
                  name \in {"x", "tslib", "a/b", "x.js", ""}}
  /\ called = FALSE
  /\ output = NotCalled

\* rollup calls external(id)
External ==
  /\ ~called
  /\ called' = TRUE
  /\ output' = external(input)
  /\ UNCHANGED <<watchVars, buildVars, input>>

ExternalNext == External

ExternalSpec == ExternalInit /\ [][ExternalNext]_vars

----------------------------------------------------------------------------
(* outputPlugin.resolveId, and what configFor tells the compiler *)

\* a path or module specifier as the string the code handles
str(path) ==
  LET RECURSIVE strFrom(_)
      strFrom(i) == IF i > Len(path) THEN "" ELSE path[i] \o strFrom(i + 1)
  IN  strFrom(1)

\* JSON.parse(readFileSync(join(root, "package.json"))).name: the manifest
\* names of the session's packages
jsonName(plat, pkg) ==
  IF unitOf(plat, pkg) = "A" THEN <<"@cm", "/", "a">> ELSE <<"@cm", "/", "b">>

\* let dirs = this.dirs = [src]; if (fs.existsSync(tests)) dirs.push(tests)
dirsOf(plat, pkg) ==
  LET src   == dirname(plat, pkg.main)
      tests == join(plat, pkg.root, <<"test">>)
  IN  IF existsSync(plat, tests) THEN <<src, tests>> ELSE <<src>>

\* pkgs.reduce((a, p) => a.concat(p.dirs), [])
allDirs(plat, ps) ==
  LET RECURSIVE allDirsFrom(_)
      allDirsFrom(i) ==
        IF i > Len(ps) THEN << >> ELSE dirsOf(plat, ps[i]) \o allDirsFrom(i + 1)
  IN  allDirsFrom(1)

\* for (let pkg of pkgs) paths[pkg.json.name] = [pkg.main]
\* include: every directory's *.ts, then the extra files, normalized
configFor(plat, ps, extra) ==
  LET names == {jsonName(plat, ps[i]) : i \in DOMAIN ps}
      ds    == allDirs(plat, ps)
  IN  [paths   |-> [n \in names |->
                      <<ps[Max({i \in DOMAIN ps : jsonName(plat, ps[i]) = n})].main>>],
       include |-> [k \in 1..(Len(ds) + Len(extra)) |->
                      normalize(IF k <= Len(ds) THEN join(plat, ds[k], <<"*", ".ts">>)
                                ELSE extra[k - Len(ds)])]]

\* path.resolve(dir, source) for an absolute dir: "." stays, ".." goes up
resolve(plat, dir, source) ==
  LET RECURSIVE resolveFrom(_, _)
      resolveFrom(acc, i) ==
        IF i > Len(source) THEN acc
        ELSE IF source[i] \in Seps(plat) \/ source[i] = "." THEN resolveFrom(acc, i + 1)
        ELSE IF source[i] = ".." THEN resolveFrom(dirname(plat, acc), i + 1)
        ELSE IF i > 1 /\ source[i - 1] \notin Seps(plat)
             THEN resolveFrom(Append(acc, source[i]), i + 1)
        ELSE resolveFrom(acc \o <<sep(plat), source[i]>>, i + 1)
  IN  resolveFrom(dir, 1)

\* /\.\w+$/.test(full)
endsWithExt(full) ==
  \E i \in 1..(Len(full) - 1) :
    char(full, i) = "." /\ \A j \in (i + 1)..Len(full) : char(full, j) \in WordChars

\* what resolveId returns when neither the store nor the base plugin knows the
\* module: undefined
NoId == << >>

\* the path resolveId looks up: base is << >> when rollup resolves an entry point
\*   let full = base && source[0] == "." ? resolve(dirname(base), source) : source
\*   if (!/\.\w+$/.test(full)) full += ext
fullPath(plat, ext, source, base) ==
  LET full == IF base # << >> /\ char(str(source), 1) = "."
              THEN resolve(plat, dirname(plat, base), source) ELSE source
  IN  IF endsWithExt(str(full)) THEN full ELSE Append(full, ext)

\* outputPlugin(output, ext, {name: "dummy"}).resolveId(source, base):
\*   if (output.get(full)) return full
\*   return resolveId ? resolveId.call(this, source, base, options) : undefined
\* an empty string is not truthy; the dummy plugin has no resolveId
resolveId(plat, fs, ext, source, base) ==
  LET full == fullPath(plat, ext, source, base)
  IN  IF get(fs, full) \notin {Undefined, ""} THEN full ELSE NoId

\* outputPlugin(...).load(file):
\*   let code = output.get(file)
\*   return code ? {code, map: output.get(file + '.map')} : (load && load.call(this, file))
\* the dummy plugin has no load: the result is undefined then
load(fs, file) ==
  IF get(fs, file) \notin {Undefined, ""}
  THEN [code |-> get(fs, file), map |-> get(fs, WithExt(file, Ext(file) \o ".map"))]
  ELSE [code |-> Undefined, map |-> Undefined]

\* input: the units of the build, the text the compiler emitted for their
\* modules (a file without code compiles to the empty string), a specifier found
\* in a compiled module or the entry point itself, and the module it is found
\* in: a unit's compiled entry file, a compiled test, or none for the entry point
ResolveInit ==
  /\ platform \in Platforms
  /\ WatchIdle
  /\ BuildIdle
  /\ \E m \in BuildMains :
       LET entries == {WithExt(Main(platform, m.units[i]), ".js") : i \in DOMAIN m.units}
           tests == UNION {{WithExt(t, ".js") : t \in Range(packagesOf(platform, m)[i].tests)} :
                             i \in DOMAIN m.units}
       IN  input \in [main : {m},
                      content : {"1", ""},
                      source : { <<"@cm", "/", "a">>, <<"@cm", "/", "b">>, <<"tslib">>,
                                 <<".", "/", "index">>, <<".", "/", "index", ".js">>,
                                 <<".", "/", "util">>, <<"..", "/", "src", "/", "index">>,
                                 <<"..", "/", "..", "/", "A", "/", "src", "/", "index">> }
                                 \cup entries,
                      base : {<< >>} \cup entries \cup tests]
  /\ called = FALSE
  /\ output = NotCalled

\* build(input.main) has compiled its packages; rollup asks about one import:
\* external(source), the plugin's resolveId(source, base), and load of the path
\* the plugin looked up
Resolve ==
  /\ ~called
  /\ called' = TRUE
  /\ \E ps \in {packagesOf(platform, input.main)} :
       \E fs \in {[i \in DOMAIN runTS(FALSE, ps, FALSE).files |->
                     [runTS(FALSE, ps, FALSE).files[i] EXCEPT !.content = input.content]]} :
         output' = [external |-> external(str(input.source)),
                    store    |-> fs,
                    full     |-> fullPath(platform, ".js", input.source, input.base),
                    resolved |-> resolveId(platform, fs, ".js", input.source, input.base),
                    loaded   |-> load(fs, fullPath(platform, ".js", input.source, input.base)),
                    paths    |-> configFor(platform, ps, << >>).paths]
  /\ UNCHANGED <<watchVars, buildVars, input>>

ResolveNext == Resolve

ResolveSpec == ResolveInit /\ [][ResolveNext]_vars

----------------------------------------------------------------------------
(* readAndMangleComments: the readFile handed to the compiler *)

\* a source file: its newline-terminated lines, and what follows the last newline
contentOf(file) ==
  LET RECURSIVE unlines(_)
      unlines(i) == IF i > Len(file.lines) THEN "" ELSE file.lines[i] \o "\n" \o unlines(i + 1)
  IN  unlines(1) \o file.tail

\* the length of the [ \t]* a line starts with
indentLen(line) ==
  Max({0} \cup {n \in 1..Len(line) : \A j \in 1..n : char(line, j) \in {" ", "\t"}})

\* ([ \t]*)\/\/\/.*\n matches the line
isDoc(line) == slice(line, indentLen(line), indentLen(line) + 3) = "///"

\* whether txt has pat at offset i
hasAt(txt, i, pat) ==
  i >= 0 /\ i + Len(pat) <= Len(txt) /\ SubSeq(txt, i + 1, i + Len(pat)) = pat

\* comment.replace(/\]\(#/g, "](https://codemirror.net/6/docs/ref/#"): piece(i) is
\* what the character at offset i becomes, between(lo, hi) the replaced text of
\* the offsets lo..hi-1
fixLinks(txt) ==
  LET piece(i) ==
        IF hasAt(txt, i, "](#") THEN "](https://codemirror.net/6/docs/ref/#"
        ELSE IF hasAt(txt, i - 1, "](#") \/ hasAt(txt, i - 2, "](#") THEN ""
        ELSE char(txt, i + 1)
      RECURSIVE between(_, _)
      between(lo, hi) ==
        IF hi <= lo THEN ""
        ELSE IF hi = lo + 1 THEN piece(lo)
        ELSE between(lo, (lo + hi) \div 2) \o between((lo + hi) \div 2, hi)
  IN  between(0, Len(txt))

\* .replace(/\/\/\/ ?/g, ""): a match starts at offset i when three slashes
\* stand there and the scan, which takes a run of slashes three at a time from
\* its left end, gets there; a match takes the blank after it
stripMarks(txt) ==
  LET slashesBefore(i) ==
        Max({0} \cup {n \in 1..i : \A j \in 1..n : char(txt, i - j + 1) = "/"})
      markAt(i) == hasAt(txt, i, "///") /\ slashesBefore(i) % 3 = 0
      piece(i) ==
        IF \/ \E k \in 0..2 : i - k >= 0 /\ markAt(i - k)
           \/ (i >= 3 /\ char(txt, i + 1) = " " /\ markAt(i - 3))
        THEN "" ELSE char(txt, i + 1)
      RECURSIVE between(_, _)
      between(lo, hi) ==
        IF hi <= lo THEN ""
        ELSE IF hi = lo + 1 THEN piece(lo)
        ELSE between(lo, (lo + hi) \div 2) \o between((lo + hi) \div 2, hi)
  IN  between(0, Len(txt))

\* the replacement of one run of /// lines; space is the indentation captured
\* in the run's last line
docBlock(run) ==
  LET lastLine == run[Len(run)]
      space    == slice(lastLine, 0, indentLen(lastLine))
      comment  == fixLinks(contentOf([lines |-> run, tail |-> ""]))
  IN  IF run = << >> THEN ""
      ELSE space \o "/**\n" \o space \o stripMarks(slice(comment, Len(space), Len(comment)))
             \o space \o "*/\n"

\* file.replace(/(?<=^|\n)(?:([ \t]*)\/\/\/.*\n)+/g, ...): every maximal run of
\* /// lines becomes a block comment
mangle(file) ==
  LET RECURSIVE mangleFrom(_, _)
      mangleFrom(i, run) ==
        IF i > Len(file.lines) THEN docBlock(run)
        ELSE IF isDoc(file.lines[i]) THEN mangleFrom(i + 1, Append(run, file.lines[i]))
        ELSE docBlock(run) \o file.lines[i] \o "\n" \o mangleFrom(i + 1, << >>)
  IN  mangleFrom(1, << >>) \o file.tail

\* a variant of the directory test that accepts every file
inDirsAlways(plat, dirs, name) == TRUE

\* dirs.includes(dirname(name))
inDirs(plat, dirs, name) == Includes(dirs, dirname(plat, name))

\* readAndMangleComments(dirs)(name), where ts.sys.readFile(name) gives file
\* (Null when there is no such file)
readAndMangleComments(plat, dirs, name, file) ==
  IF file = Null THEN Undefined
  ELSE IF contentOf(file) # "" /\ inDirs(plat, dirs, name) THEN mangle(file)
  ELSE contentOf(file)

\* input: the units of the build; the name the compiler reads (a unit's source
\* or test, a file below a source directory, the extra file, a dependency's
\* declarations, each as the platform spells it and as the compiler does, with
\* forward slashes); and the file on disk, Null for a missing file
MangleInit ==
  /\ platform \in Platforms
  /\ WatchIdle
  /\ BuildIdle
  /\ LET s == sep(platform)
         names == {Main(platform, "A"), Main(platform, "B"),
                   <<"w", s, "B", s, "test", s, "t", ".ts">>,
                   <<"w", s, "A", s, "src", s, "sub", s, "u", ".ts">>,
                   <<"w", s, "A", s, "test", s, "t", ".ts">>,
                   Extra(platform)[1],
                   <<"w", s, "node_modules", s, "x", s, "index", ".d.ts">>}
         Lines == {"/// a", "  /// see [x](#y)", "let x /// y", "\t///b /// c"}
     IN  input \in [main : {[single |-> FALSE, units |-> us] :
                              us \in {<<"A">>, <<"B">>, <<"A", "B">>}},
                    name : names \cup {normalize(n) : n \in names},
                    file : {Null} \cup
                           {[lines |-> ls, tail |-> t] :
                              ls \in UNION {[1..n -> Lines] : n \in 0..MaxLines},
                              t \in {"", "/// end"}}]
  /\ called = FALSE
  /\ output = NotCalled

\* the compiler host's readFile(name) during runTS(allDirs(pkgs), ...)
ReadFile ==
  /\ ~called
  /\ called' = TRUE
  /\ output' = readAndMangleComments(platform, allDirs(platform, packagesOf(platform, input.main)),
                                     input.name, input.file)
  /\ UNCHANGED <<watchVars, buildVars, input>>

MangleNext == ReadFile

MangleSpec == MangleInit /\ [][MangleNext]_vars

----------------------------------------------------------------------------
(* runTS and watchTS: what becomes of the compiler's diagnostics *)

\* input: a compiler run, one-shot (runTS) or of the watch program (watchTS),
\* the diagnostics it produces, and whether it skips emission
DiagInit ==
  /\ platform = "posix"
  /\ WatchIdle
  /\ BuildIdle
  /\ input \in [watch : BOOLEAN, emitSkipped : BOOLEAN,
                diags : UNION {[1..n -> [category : {"error", "warning"}, code : {1, 2}]] :
                                 n \in 0..MaxDiags}]
  /\ called = FALSE
  /\ output = NotCalled

\* watchTS: createWatchProgram reports each diagnostic through
\*   diag => console.error(ts.formatDiagnostic(diag, tsFormatHost))
\* and the store is returned whatever the program reported.
\* runTS: result = program.emit(undefined, out.write);
\*        return result.emitSkipped ? null : out
\* result.diagnostics is not read and nothing is written to the console.
Compile ==
  /\ ~called
  /\ called' = TRUE
  /\ output' = IF input.watch
               THEN [result |-> "out",
                     console |-> [i \in DOMAIN input.diags |->
                                    [method |-> "error", diag |-> input.diags[i]]]]
               ELSE [result |-> IF input.emitSkipped THEN "null" ELSE "out",
                     console |-> << >>]
  /\ UNCHANGED <<watchVars, buildVars, input>>

DiagNext == Compile

DiagSpec == DiagInit /\ [][DiagNext]_vars

----------------------------------------------------------------------------
(* The watcher callback of src/src/build.ts *)

\* changed => { ... }: the loop over the batch, then the direct writes and
\* bundleAll(changedPkgs).  pkgs.find(p => p.root = root) calls its predicate on
\* the first package: the assignment stores root there and yields root, a
\* non-empty string, so find stops and returns that package.
watcher(plat, ps, extra, batch) ==
  LET RECURSIVE loop(_, _)
      loop(i, acc) ==
        LET file == batch[i]
            root == dirname(plat, dirname(plat, file))
            assigned == [acc EXCEPT !.pkgs[1].root = root]
        IN  IF i > Len(batch) THEN acc
            ELSE IF Includes(extra, file)
            THEN loop(i + 1, [acc EXCEPT !.changedFiles = Append(@, file)])
            ELSE IF Len(acc.pkgs) = 0
            THEN [acc EXCEPT !.threw = TRUE]
            ELSE IF Includes(assigned.pkgs[1].tests, file)
            THEN loop(i + 1, [assigned EXCEPT !.changedFiles = Append(@, file)])
            ELSE IF Includes(assigned.changedPkgs, 1)
            THEN loop(i + 1, assigned)
            ELSE loop(i + 1, [assigned EXCEPT !.changedPkgs = Append(@, 1)])
      r == loop(1, [pkgs |-> ps, changedPkgs |-> << >>, changedFiles |-> << >>,
                    threw |-> FALSE])
  IN  [pkgs |-> r.pkgs, threw |-> r.threw,
       changedPkgs |-> r.changedPkgs, changedFiles |-> r.changedFiles,
       disk |-> IF r.threw THEN << >> ELSE r.changedFiles,
       bundleAll |-> IF r.threw THEN << >> ELSE r.changedPkgs]

\* input: the batch a flush hands the watcher, of paths the compiler has written
OldInit ==
  /\ platform \in Platforms
  /\ WatchIdle
  /\ BuildIdle
  /\ input \in UNION {[1..n -> {VPath("A", "src", "index", ".js"),
                                VPath("B", "src", "index", ".js"),
                                VPath("B", "test", "t", ".js"),
                                VPath("z", "lib", "o", ".js"),
                                Extra(platform)[1]}] : n \in 1..MaxWrites}
  /\ called = FALSE
  /\ output = NotCalled

\* the flush calls the watcher with the batch
Classify ==
  /\ ~called
  /\ called' = TRUE
  /\ output' = watcher(platform, mapPackages(platform), Extra(platform), input)
  /\ UNCHANGED <<watchVars, buildVars, input>>

OldNext == Classify

OldSpec == OldInit /\ [][OldNext]_vars

----------------------------------------------------------------------------
(* Properties *)

AllCycles == Range(cycles) \cup {last}

AllPaths == WritePaths \cup Range(InitialEmit)

HasEvent(c, ev, u) == \E j \in 1..Len(c.log) : c.log[j].ev = ev /\ c.log[j].unit = u

\* C1: a call write(path, content) that finds content stored under the
\* normalized path leaves the file table, the batch, the timer handle and the
\* pending timers as they are, and no watcher is called.
C1_IdempotentWrite ==
  [][\A path \in WritePaths, content \in Contents :
       (Write(path, content) /\ Get(files, normalize(path)) = content)
         => /\ UNCHANGED <<files, changed, watchTimeout, timers, cycles>>
            /\ ~handed'.flushed]_vars

\* a write call has just returned without touching a flush that is half way
C1_Witness ==
  /\ sinceCall = 0
  /\ sinceChange = TickMs
  /\ \E t \in timers : t.left = DebounceMs - TickMs

\* C2: the paths of a burst of content-changing writes, each less than a window
\* after the one before, are all in the batch of one notification: none fires
\* inside the burst, the one after it holds them all and leaves no flush pending,
\* and that notification does come.
C2_Coalesced ==
  /\ [](handed.flushed => /\ burst \subseteq Range(handed.files)
                          /\ sinceChange >= DebounceMs
                          /\ timers = {})
  /\ (burst # {} /\ timers # {}) ~> handed.flushed

C2_Witness == handed.flushed /\ Cardinality(burst) >= 2

\* C3 (as claimed): a writeFor invocation started by a flush when the initial
\* build was over, and whose cause is writes to unit B's outputs only, never
\* bundles unit A nor writes under A's dist.
C3_OnlyBRebuilt ==
  \A c \in AllCycles :
    (/\ c.kind = "flush"
     /\ c.cause # {}
     /\ \A p \in c.cause : owner(platform, pkgs, p) # 0
                           /\ Units[owner(platform, pkgs, p)] = "B")
    => \A j \in 1..Len(c.log) : c.log[j].unit # "A"

\* C4 (as claimed): no two writeFor invocations that flushes started are in
\* progress at once (the invocation watch() makes itself is left aside).
C4_OneCycleAtATime ==
  Cardinality({i \in 1..Len(cycles) : cycles[i].kind # "initial"}) <= 1

\* C5: a bundle() that rejects is logged for its unit and the loop goes on: the
\* invocation never rejects because of it, the next dirty unit is bundled next,
\* and an invocation that is done has invoked the bundler for every dirty unit.
C5_FailureIsolated ==
  \A c \in AllCycles :
    /\ \A j \in 1..Len(c.log) :
         c.log[j].ev = "rejected"
           => /\ c.st \in {"bundling", "done"}
              /\ j + 2 <= Len(c.log)
              /\ c.log[j + 1].ev = "error"
              /\ c.log[j + 1].unit = c.log[j].unit
              /\ c.log[j + 2].ev \in {"bundle", "done"}
    /\ c.st = "done"
         => LET b == SelectSeq(c.log, LAMBDA e : e.ev = "bundle")
            IN  [j \in 1..Len(b) |-> b[j].unit] = c.changedPkgs

C5_Witness ==
  /\ last.st = "done"
  /\ last.kind = "flush"
  /\ last.changedPkgs = <<"A", "B">>
  /\ HasEvent(last, "rejected", "A")
  /\ HasEvent(last, "resolved", "B")

\* C6 (as claimed): no notification fires less than a window after a call of write.
C6_ResetOnEveryCall == handed.flushed => sinceCall >= DebounceMs

\* C6 (amended): no notification fires less than a window after a call of write
\* that changed a file's content; a pending flush is never due before that.
C6_ResetOnEveryChange ==
  /\ handed.flushed => sinceChange >= DebounceMs
  /\ \A t \in timers : t.left + sinceChange >= DebounceMs

C6_Witness == handed.flushed /\ sinceCall < DebounceMs

\* C7: at most one flush is pending; no notification fires less than a window
\* after a content-changing write; a batch with no flush pending holds only what
\* the first emit left there; and every path in the batch of a pending flush is
\* handed to the watchers in the end.
C7_ResetNotStacked ==
  /\ [](Cardinality(timers) <= 1)
  /\ [](handed.flushed => sinceChange >= DebounceMs)
  /\ [](timers = {} => Range(changed) \subseteq Range(InitialEmit))
  /\ \A p \in AllPaths :
       (timers # {} /\ Includes(changed, p))
         ~> (handed.flushed /\ Includes(handed.files, p))

C7_Witness ==
  /\ handed.flushed
  /\ writesLeft = 0
  /\ Cardinality(cause) = 0
  /\ Cardinality(burst) = MaxWrites
  /\ changed = << >>

\* C8 (as claimed): when the watchers run, the store's batch is already empty.
C8_EmptiedBeforeWatchers == handed.flushed => handed.seen = << >>

\* C8 (amended): when the watchers run, the store's batch is still the batch
\* they are handed; it is empty when the flush callback returns, so that a path
\* written after the flush lands in a fresh batch.
C8_EmptiedAfterWatchers ==
  handed.flushed => /\ handed.files # << >>
                    /\ handed.seen = handed.files
                    /\ changed = << >>

C8_Witness == handed.flushed /\ Len(handed.seen) > Len(InitialEmit)

\* C9 (as claimed): no two entries of a batch handed to a watcher normalize to
\* the same path.
C9_NoDuplicates ==
  handed.flushed =>
    \A i, j \in 1..Len(handed.files) :
      normalize(handed.files[i]) = normalize(handed.files[j]) => i = j

\* a path of the batch that is no extra file and whose grandparent directory
\* is no package's root
Unowned(file) ==
  /\ ~Includes(extraNorm, tsName(file))
  /\ \A k \in 1..Len(pkgs) :
       normalize(pkgs[k].root) # dirname(platform, dirname(platform, file))

\* C10: an invocation of writeFor whose batch holds such a path rejects, having
\* written nothing to disk and invoked the bundler for nothing.
C10_UnownedRejects ==
  \A c \in AllCycles :
    (\E i \in 1..Len(c.files) : Unowned(c.files[i]))
      => /\ c.st = "rejected"
         /\ \A j \in 1..Len(c.log) : c.log[j].ev = "throw"

C10_Witness ==
  /\ last.st = "rejected"
  /\ last.changedFiles # << >>
  /\ last.changedPkgs # << >>

\* C11: when the compiler run skips emission, build returns false, having
\* invoked the bundler for no unit and written no file to disk.
C11_SkippedEmitFails ==
  (emitSkipped /\ buildPc # "idle")
    => /\ buildPc = "returned"
       /\ buildResult = "false"
       /\ compiled = Null
       /\ started = << >>
       /\ disk = << >>

C11_Witness == emitSkipped /\ buildResult = "false" /\ Len(buildMain.units) = 2

\* C12 (as claimed): a build that rejects has written no file to disk.
C12_AllOrNothing == buildResult = "rejected" => disk = << >>

\* the files unit u's bundle() has written in this build
EmittedFor(u) == SelectSeq(disk, LAMBDA e : e.ev = "emit" /\ e.unit = u)

\* C13 (as claimed): whenever build awaits a bundle(), the bundle() of every
\* unit of the build has been invoked.
C13_FireAndAwaitAll == buildPc = "bundle" => Len(started) = Len(buildPkgs)

\* C13 (amended): the bundler invocations run one after another: at most one is
\* in progress, and when build awaits the bundle() of its i-th unit it has
\* invoked the bundler for the first i units only, the earlier ones having
\* written all their files.
C13_OneAtATime ==
  /\ Cardinality(bundling) <= 1
  /\ buildPc = "bundle"
       => /\ started = [k \in 1..buildAt |-> unitOf(platform, buildPkgs[k])]
          /\ bundling = {unitOf(platform, buildPkgs[buildAt])}
          /\ \A k \in 1..(buildAt - 1) :
               Len(EmittedFor(started[k]))
                 = Len(bundleFiles(platform, buildPkgs[k], sourceMap))

C13_Witness ==
  /\ buildPc = "bundle"
  /\ buildAt = 2
  /\ written = 1
  /\ Len(EmittedFor(started[1])) > 1

\* every call and new expression of the tree under node, with where it starts
\* and whether it lies inside the body of a function or of a class
RECURSIVE callsIn(_, _, _)
callsIn(node, pos, inside) ==
  (IF IsCall(node) THEN {[at |-> pos, inside |-> inside]} ELSE {})
    \cup (IF IsCall(node)
          THEN callsIn(node.kids[1], calleeStart(node, pos), inside)
                 \cup UNION {callsIn(node.kids[i + 1], argStart(node, pos, i), inside)
                             : i \in 1..(Len(node.kids) - 1)}
          ELSE UNION {callsIn(node.kids[i], kidStart(node, pos, i), inside)
                      : i \in 1..Len(node.kids)})
    \cup UNION {callsIn(node.body[i], bodyStart(node, pos, i), TRUE) : i \in 1..Len(node.body)}

programCalls(prog) ==
  UNION {callsIn(prog.stmts[i], stmtStart(prog, i), FALSE) : i \in 1..Len(prog.stmts)}

Marked(pos) ==
  \E k \in 1..Len(output.patches) :
    output.patches[k].from = pos /\ output.patches[k].insert = pure

\* C14: no marker is inserted before a call or new expression that lies inside
\* the body of a function or of a class.
C14_NoMarkerInsideBodies ==
  called => \A c \in programCalls(input) : c.inside => ~Marked(c.at)

\* function f(){g();} h();
C14_Witness ==
  /\ called
  /\ input.stmts = <<FnDecl("f", <<Stmt(CallG)>>), Stmt(CallH)>>
  /\ Len(output.patches) = 1
  /\ Marked(stmtStart(input, 2))

\* C15 (as claimed): every call or new expression outside the bodies of
\* functions and classes has a marker inserted where it starts.
C15_EveryTopLevelCallMarked ==
  called => \A c \in programCalls(input) : ~c.inside => Marked(c.at)

\* C16 (as claimed): no two patches of the final list have the same position
\* and the same text.
C16_NoDuplicatePatches ==
  called =>
    \A i, j \in 1..Len(output.patches) :
      (output.patches[i].from = output.patches[j].from
         /\ output.patches[i].insert = output.patches[j].insert) => i = j

\* a program that is `var N;` followed by a call of a one-parameter function
\* expression whose parameter is N
EnumProgram(prog) ==
  /\ Len(prog.stmts) = 2
  /\ prog.stmts[1].type = "VariableDeclaration"
  /\ prog.stmts[1].kids = << >>
  /\ prog.stmts[2].type = "ExpressionStatement"
  /\ prog.stmts[2].kids[1].type = "CallExpression"
  /\ prog.stmts[2].kids[1].kids[1].type = "FunctionExpression"
  /\ prog.stmts[2].kids[1].kids[1].params = <<prog.stmts[1].name>>

\* what the enum rewrite is to make of such a program
EnumRewritten(prog) ==
  LET name == prog.stmts[1].name
      call == prog.stmts[2].kids[1]
      fn == text(call.kids[1])
  IN  prog.lead \o "var " \o name \o " = " \o pure \o "("
        \o SubSeq(fn, 1, Len(fn) - 1) \o "return " \o name \o "})"
        \o "(" \o textAll(Tail(call.kids), ",", 1) \o ");" \o prog.trail

\* C17 (as claimed): such a program comes out with the declaration turned into
\* an assignment of the marked call and `return N` before the closing brace of
\* the function body, wherever the call starts.
C17_EnumRewrite ==
  (called /\ EnumProgram(input)) => output.result = EnumRewritten(input)

Letters == WordChars \ {"0", "1", "2", "3", "4", "5", "6", "7", "8", "9", "_"}

\* a relative path: it starts with ./ or ../
IsRelative(id) == startsWith(id, "./") \/ startsWith(id, "../")

\* an absolute path: it starts with / or with a drive letter and a colon
IsAbsolute(id) ==
  startsWith(id, "/") \/ (Len(id) >= 2 /\ char(id, 1) \in Letters /\ char(id, 2) = ":")

\* C18 (as claimed): external(id) is true exactly when id is no relative path,
\* no absolute path and not tslib.
C18_ExternalExactly ==
  called => (output <=> (~IsRelative(input) /\ ~IsAbsolute(input) /\ input # "tslib"))

\* the import of unit A by its manifest name, found in unit B's entry module
ImportsAByName ==
  /\ input.source = jsonName(platform, Package(platform, Main(platform, "A")))
  /\ input.base = WithExt(Main(platform, "B"), ".js")

\* unit A's compiled entry module in the store
CompiledA == normalize(WithExt(Main(platform, "A"), ".js"))

\* C19 (as claimed): when B imports A by A's manifest name and A is part of the
\* same build, the import resolves to A's compiled output and is not external.
C19_ResolvedWhenTogether ==
  (called /\ ImportsAByName /\ "A" \in Range(input.main.units))
    => (~output.external /\ output.resolved # NoId /\ normalize(output.resolved) = CompiledA)

\* C19 (amended): the import of A by its manifest name is left external and is
\* not resolved by the plugin, whether or not A is part of the build; what
\* differs is the compiler's paths entry for the name, present exactly when A is
\* part of the build, and then naming A's entry file.
C19_ExternalEitherWay ==
  (called /\ ImportsAByName)
    => /\ output.external
       /\ output.resolved = NoId
       /\ (input.source \in DOMAIN output.paths) <=> ("A" \in Range(input.main.units))
       /\ input.source \in DOMAIN output.paths
            => output.paths[input.source] = <<Main(platform, "A")>>

C19_Witness ==
  /\ called
  /\ ImportsAByName
  /\ input.main.units = <<"A", "B">>
  /\ output.external
  /\ input.source \in DOMAIN output.paths

\* the file lies in the source or test directory of a unit of the build, or
\* below one, however the separators are spelled
LiesInUnitDirs ==
  \E u \in Range(input.main.units), d \in {"src", "test"} :
    /\ Len(input.name) > 6
    /\ SubSeq(normalize(input.name), 1, 6) = <<"w", "/", u, "/", d, "/">>

\* C20: readFile returns the content of a file outside the units' source and
\* test directories unchanged; only the units' own files are mangled.
C20_OutsideUntouched ==
  (called /\ input.file # Null /\ ~LiesInUnitDirs) => output = contentOf(input.file)

C20_Witness ==
  /\ called
  /\ input.file # Null
  /\ ~LiesInUnitDirs
  /\ mangle(input.file) # contentOf(input.file)
  /\ output = contentOf(input.file)

\* C21 (as claimed): every diagnostic a compiler run produces is written to the
\* console, also when the one-shot run returns null.
C21_DiagnosticsLogged ==
  called => \A i \in DOMAIN input.diags :
              \E j \in DOMAIN output.console : output.console[j].diag = input.diags[i]

\* C22: in a writeFor invocation that got past classification, every compiled
\* extra or test file of the batch is written to disk, and all of that before
\* the first bundle() is invoked; bundle() is invoked at most once per unit,
\* only for dirty units, and a unit's bundle() has resolved or rejected before
\* the next unit's is invoked; an invocation that is done has bundled every
\* dirty unit.
C22_WritesThenOneBundleEach ==
  \A c \in AllCycles :
    c.st \in {"bundling", "done"} =>
      /\ \A i \in DOMAIN c.changedFiles :
           Ext(c.changedFiles[i]) \in {".js", ".js.map"}
             => \E j \in DOMAIN c.log :
                  c.log[j].ev = "disk" /\ c.log[j].path = c.changedFiles[i]
      /\ \A j, k \in DOMAIN c.log :
           (c.log[j].ev = "disk" /\ c.log[k].ev = "bundle") => j < k
      /\ \A j, k \in DOMAIN c.log :
           (j < k /\ c.log[j].ev = "bundle" /\ c.log[k].ev = "bundle")
             => /\ c.log[j].unit # c.log[k].unit
                /\ \E n \in (j + 1)..(k - 1) :
                     c.log[n].ev \in {"resolved", "rejected"} /\ c.log[n].unit = c.log[j].unit
      /\ \A j \in DOMAIN c.log :
           c.log[j].ev = "bundle" => Includes(c.changedPkgs, c.log[j].unit)
      /\ c.st = "done" => \A i \in DOMAIN c.changedPkgs : HasEvent(c, "bundle", c.changedPkgs[i])

\* a cycle with a direct write and two dirty units, one of them with two paths
\* in the batch, has run to its end
C22_Witness ==
  /\ last.st = "done"
  /\ last.kind \in {"flush", "overlap"}
  /\ last.changedPkgs = <<"A", "B">>
  /\ Cardinality({i \in DOMAIN last.files :
                    owner(platform, pkgs, last.files[i]) = 2
                    /\ ~IsTest(pkgs, 2, last.files[i])}) >= 2
  /\ \E j \in DOMAIN last.log : last.log[j].ev = "disk"
  /\ HasEvent(last, "rejected", "A")

\* the path is the compiled output of an extra file
ExtraOutput(file) == \E i \in DOMAIN extraNorm : normalize(tsName(file)) = extraNorm[i]

\* the path is the compiled output of one of a unit's test files
TestOutput(file) ==
  \E k \in DOMAIN pkgs :
    \E i \in DOMAIN pkgs[k].tests : normalize(tsName(file)) = normalize(pkgs[k].tests[i])

\* C23 (as claimed): in an invocation that got past classification, the
\* compiled output of an extra file or of a test file is queued for the direct
\* write and marks no unit dirty, and a unit is dirty exactly when the batch
\* holds a path that is neither and whose grandparent directory is its root; an
\* extra file's path raises no error.
C23_Classified ==
  \A c \in AllCycles :
    /\ c.st \in {"bundling", "done"} =>
         /\ \A i \in DOMAIN c.files :
              (ExtraOutput(c.files[i]) \/ TestOutput(c.files[i]))
                => Includes(c.changedFiles, c.files[i])
         /\ \A k \in DOMAIN pkgs :
              Includes(c.changedPkgs, Units[k])
                <=> \E i \in DOMAIN c.files :
                      /\ ~ExtraOutput(c.files[i])
                      /\ ~TestOutput(c.files[i])
                      /\ dirname(platform, dirname(platform, c.files[i])) = normalize(pkgs[k].root)
    /\ \A j \in DOMAIN c.log : c.log[j].ev = "throw" => ~ExtraOutput(c.log[j].path)

\* C24 (as claimed): the watcher of src/src/build.ts leaves every unit as it was
\* constructed, and each unit it marks changed is one whose root is the
\* grandparent directory of a path of the batch.
C24_UnitsReadOnly ==
  called =>
    /\ output.pkgs = mapPackages(platform)
    /\ \A j \in DOMAIN output.changedPkgs :
         \E i \in DOMAIN input :
           dirname(platform, dirname(platform, input[i]))
             = mapPackages(platform)[output.changedPkgs[j]].root

\* the store holds an entry for the path
Holds(fs, path) == \E i \in DOMAIN fs : fs[i].name = normalize(path)

\* C25 (as claimed): resolveId returns the path it looked up whenever the store
\* holds an entry for it, whatever the content, and does not resolve otherwise;
\* load returns the store's content for a path the store holds.
C25_StoreFirst ==
  called =>
    /\ Holds(output.store, output.full) => output.resolved = output.full
    /\ ~Holds(output.store, output.full) => output.resolved = NoId
    /\ Holds(output.store, output.full)
         => output.loaded.code = Get(output.store, normalize(output.full))

\* the block comment the claim describes for a run of marked lines: an opener
\* line, each line of the run with its indentation kept and its marker (and one
\* blank after it) removed, a closer line; opener and closer are indented like
\* the run's last line, and links are rewritten
ExpectedBlock(run) ==
  LET ind(line) == slice(line, 0, indentLen(line))
      rest(line) == slice(line, indentLen(line) + 3, Len(line))
      body(line) == IF startsWith(rest(line), " ") THEN slice(rest(line), 1, Len(rest(line)))
                    ELSE rest(line)
      RECURSIVE linesFrom(_)
      linesFrom(i) ==
        IF i > Len(run) THEN ""
        ELSE ind(run[i]) \o fixLinks(body(run[i])) \o "\n" \o linesFrom(i + 1)
  IN  IF run = << >> THEN ""
      ELSE ind(run[Len(run)]) \o "/**\n" \o linesFrom(1) \o ind(run[Len(run)]) \o "*/\n"

\* the file with every maximal run of marked lines replaced by its block
ExpectedMangle(file) ==
  LET RECURSIVE from(_, _)
      from(i, run) ==
        IF i > Len(file.lines) THEN ExpectedBlock(run)
        ELSE IF isDoc(file.lines[i]) THEN from(i + 1, Append(run, file.lines[i]))
        ELSE ExpectedBlock(run) \o file.lines[i] \o "\n" \o from(i + 1, << >>)
  IN  from(1, << >>) \o file.tail

\* C26 (as claimed): for a file in one of the units' directories, what readFile
\* returns is the file with every maximal run of marked lines replaced by one
\* block comment whose lines keep their indentation and lose only the marker,
\* everything else unchanged.
C26_RunsBecomeBlocks ==
  (called /\ input.file # Null
     /\ inDirs(platform, allDirs(platform, packagesOf(platform, input.main)), input.name))
    => output = ExpectedMangle(input.file)

\* the text with every marker deleted
WithoutMarkers(txt) ==
  LET piece(i) == IF \E k \in 0..(Len(pure) - 1) : hasAt(txt, i - k, pure)
                  THEN "" ELSE char(txt, i + 1)
      RECURSIVE between(_, _)
      between(lo, hi) ==
        IF hi <= lo THEN ""
        ELSE IF hi = lo + 1 THEN piece(lo)
        ELSE between(lo, (lo + hi) \div 2) \o between((lo + hi) \div 2, hi)
  IN  between(0, Len(txt))

\* C27: when no enum rewrite was made, the patches are in ascending order of
\* position, the k-th marker stands in the result where the k-th patch puts it
\* (its position in the original text, moved by the markers before it), and the
\* result with the markers deleted is the original text.
C27_PurelyAdditive ==
  (called /\ \A k \in DOMAIN output.patches : output.patches[k].insert = pure)
    => /\ \A j, k \in DOMAIN output.patches :
            j < k => output.patches[j].from <= output.patches[k].from
       /\ \A k \in DOMAIN output.patches :
            hasAt(output.result, output.patches[k].from + Len(pure) * (k - 1), pure)
       /\ Len(output.result) = Len(codeOf(input)) + Len(pure) * Len(output.patches)
       /\ WithoutMarkers(output.result) = codeOf(input)

\* f(g()); new F(g()); : the walk pushes the patches of the arguments first
C27_Witness ==
  /\ called
  /\ input.stmts = <<Stmt(Call(Id("f"), <<CallG>>)), Stmt(New(Id("F"), <<CallG>>))>>
  /\ Len(output.patches) = 4
  /\ \A k \in DOMAIN output.patches : output.patches[k].insert = pure
  /\ WithoutMarkers(output.result) = codeOf(input)

\* the two spellings of one output path
Spellings ==
  { VPath("B", "src", "index", ".js"),
    <<"w", "\\", "B", "\\", "src", "\\", "index", ".js">> }

\* C28: no key of the file table contains a backslash; after write(p, c) the
\* lookup of every path with the same separator-normalized form returns c; and
\* a lookup changes its answer only in a write to a path with that form.
C28_CanonicalKeys ==
  /\ \A i \in DOMAIN files : ~Includes(files[i].name, "\\")
  /\ [][/\ \A i \in DOMAIN files' : ~Includes(files'[i].name, "\\")
        /\ \A p \in WritePaths, c \in Contents :
             Write(p, c) =>
               \A q \in WritePaths \cup Range(InitialEmit) :
                 normalize(q) = normalize(p) => get(files', q) = c
        /\ \A q \in WritePaths \cup Range(InitialEmit) :
             get(files', q) # get(files, q) =>
               \E p \in WritePaths, c \in Contents :
                 Write(p, c) /\ normalize(p) = normalize(q)]_vars

\* a write through the backslashed spelling is read back through both
C28_Witness ==
  /\ <<"w", "\\", "B", "\\", "src", "\\", "index", ".js">> \in cause
  /\ \A q \in Spellings : get(files, q) = "2"
  /\ Get(files, VPath("B", "src", "index", ".js")) = "2"
  /\ \A i \in DOMAIN files : ~Includes(files[i].name, "\\")

C30_PatchesInsideText ==
  called =>
    \A k \in DOMAIN output.patches :
      LET patch == output.patches[k]
          to == IF patch.hasTo THEN patch.to ELSE patch.from
      IN  0 <= patch.from /\ patch.from <= to /\ to <= Len(codeOf(input))

====
